---- MODULE Spec2Model ----
(***************************************************************************)
(* Doc catalog service of flexUI: controllers/docController.js and         *)
(* routes/docRoutes.js over the Sequelize models Doc, Code and Category.   *)
(* The store is the pair of tables (docs, codes) with their auto-increment *)
(* counters; every controller function is one action that handles one      *)
(* request to completion and leaves the request and the response in        *)
(* (req, resp).  tomb is the history of what the successful deletes took.  *)
(***************************************************************************)
EXTENDS Integers, Sequences, FiniteSets, TLC

VARIABLES docs, codes, nextDocId, nextCodeId, req, resp, tomb

vars == <<docs, codes, nextDocId, nextCodeId, req, resp, tomb>>

\* ------------------------------------------------------------------ bounds
\* Longest codes array of a payload.
MaxCodes == 2
\* Rows the auto-increment counters may hand out under each specification.
CreateMaxDocs == 2
CreateMaxCodeRows == 3
DeleteMaxDocs == 2
DeleteMaxCodeRows == 2
UpdateMaxDocs == 2
UpdateMaxCodeRows == 1
SlugsMaxDocs == 3

\* ------------------------------------------------------- values of the store
\* A nullable integer column holds NULL (ids start at 1, so 0 is free); a
\* payload field that is absent from the JSON body is UNDEFINED / UNDEF.
NULL == 0
UNDEFINED == 0 - 1
UNDEF == "<undefined>"
NaN == 0 - 2

\* Decimal strings of the ids, as they appear in req.params and as property
\* keys of a plain object.
Decimal == <<"1", "2", "3", "4", "5", "6", "7", "8", "9">>

DecStr(n) == IF n = 0 THEN "0" ELSE Decimal[n]

\* The store's coercion of a request string to a primary key: the number a
\* decimal string denotes, NaN for anything else.
PkOf(s) ==
    IF s = "0" THEN 0
    ELSE IF \E i \in 1..Len(Decimal) : Decimal[i] = s
         THEN CHOOSE i \in 1..Len(Decimal) : Decimal[i] = s
         ELSE NaN

\* The Category table: rows are written by code outside this controller.
Categories ==
    { [id |-> 1, categoryName |-> "Navbar", slug |-> "navbar"],
      [id |-> 2, categoryName |-> "Button", slug |-> "button"] }

\* Collation of the category names in use (ORDER BY categoryName ASC).
Collation == <<"Button", "Navbar">>

NameRank(name) == CHOOSE i \in 1..Len(Collation) : Collation[i] = name

\* Slug the Doc model gives a new row when the payload carries none.
GenerateSlug(uiName, id) == uiName \o "-" \o DecStr(id)

\* ------------------------------------------------------------ store queries
\* include: [{ model: Code, as: "codes" }]
CodesOf(cs, docId) == { c \in cs : c.docId = docId }

\* include: [{ model: Category, as: "category", attributes: [...] }]: the set
\* holding the joined Category, empty when the join finds none.
CategoryOf(d) ==
    { [categoryName |-> c.categoryName, slug |-> c.slug] :
        c \in { k \in Categories : k.id = d.categoryId } }

\* include: [{ model: Category, as: "category", attributes: ["id", ...] }]
CategoryWithIdOf(d) == { k \in Categories : k.id = d.categoryId }

\* include: [{ model: Doc, as: "uiVariants", include: codes }]
VariantsOf(ds, cs, id) ==
    { [doc |-> v, codes |-> CodesOf(cs, v.id)] : v \in { x \in ds : x.parentId = id } }

\* Doc.findByPk(pk): the set of rows with that key (none for NaN or 0).
FindByPk(ds, pk) == { d \in ds : d.id = pk }

\* The JSON of a Doc fetched with codes and category.
DocJson(ds, cs, d) ==
    [doc |-> d, codes |-> CodesOf(cs, d.id), category |-> CategoryOf(d)]

\* The JSON of a Doc fetched with codes, category and uiVariants.
FullDocJson(ds, cs, d) ==
    [doc |-> d, codes |-> CodesOf(cs, d.id), category |-> CategoryOf(d),
     uiVariants |-> VariantsOf(ds, cs, d.id)]

NoTomb == [docs |-> {}, variants |-> {}, codes |-> {}]

NoReq == [op |-> "none"]
NoResp == [handler |-> "none", status |-> 0]

Init ==
    /\ docs = {}
    /\ codes = {}
    /\ nextDocId = 1
    /\ nextCodeId = 1
    /\ req = NoReq
    /\ resp = NoResp
    /\ tomb = NoTomb

\* ------------------------------------------------------------------ inputs
CodeEntries ==
    { [language |-> "tailwind", code |-> "tw"], [language |-> "jsx", code |-> "js"] }

RECURSIVE SeqsUpTo(_, _)
SeqsUpTo(S, n) ==
    IF n = 0 THEN { <<>> }
    ELSE LET shorter == SeqsUpTo(S, n - 1)
         IN  shorter \cup { Append(s, e) : s \in { t \in shorter : Len(t) = n - 1 }, e \in S }

\* req.body.codes: an array of entries, or a value that is no array (absent,
\* or a single entry object sent without the enclosing array).
Arrays(n) == { [isArray |-> TRUE, items |-> s] : s \in SeqsUpTo(CodeEntries, n) }

NonArrays ==
    { [isArray |-> FALSE, items |-> <<>>],
      [isArray |-> FALSE, items |-> <<[language |-> "jsx", code |-> "js"]>>] }

ArrayIsArray(c) == c.isArray

\* req.params.id of the routes: the decimal strings of the ids 1..n.
Params(n) == { DecStr(i) : i \in 1..n }

\* req.body of createDoc and createVariant.
Bodies(codesInputs, parentIds, categoryIds) ==
    [ uiName : { "Button" }, uiSubtitle : { "Primary" }, docs : { "# Docs" },
      codes : codesInputs, parentId : parentIds, categoryId : categoryIds ]

Reply(h, s, b) == [handler |-> h, status |-> s, body |-> b]

InternalError(h) == Reply(h, 500, [message |-> "Internal Server Error"])

NotFound(h, msg) == Reply(h, 404, [message |-> msg])

\* --------------------------------------------------------------- store writes
\* Doc.create({ uiName, uiSubtitle, docs, parentId, categoryId })
NewDocRow(id, uiName, uiSubtitle, text, parentId, categoryId) ==
    [ id |-> id, uiName |-> uiName, uiSubtitle |-> uiSubtitle, docs |-> text,
      uniqueSlug |-> GenerateSlug(uiName, id), categoryId |-> categoryId,
      parentId |-> parentId ]

\* NewCodeRows with the loop starting at the second entry.
NewCodeRowsSkipFirst(entries, k, docId, firstId) ==
    { [ id |-> firstId + i - 1, language |-> entries[i].language,
        code |-> entries[i].code, docId |-> docId ] : i \in 2..k }

\* The first k passes of the loop `for (const codeEntry of codes) await
\* Code.create({ language, code, docId })`, ids taken from firstId on.
NewCodeRows(entries, k, docId, firstId) ==
    { [ id |-> firstId + i - 1, language |-> entries[i].language,
        code |-> entries[i].code, docId |-> docId ] : i \in 1..k }

\* Number of Code.create calls the handler makes for a payload's codes.
CodeCount(c) == IF ArrayIsArray(c) THEN Len(c.items) ELSE 0

\* CodesInserted as it would be were the inserts rolled back on a throw.
CodesInsertedRolledBack(n, fault, first) == IF fault = 0 THEN n ELSE 0

\* Passes of the loop over codes that complete: all n when no call throws or
\* only the final findByPk (call n + first) does, none when a call before the
\* loop throws, and those before the throwing Code.create (call first + i for
\* entry i + 1) otherwise.
CodesInserted(n, fault, first) ==
    IF fault = 0 \/ fault = n + first THEN n
    ELSE IF fault < first THEN 0
    ELSE fault - first

\* VariantParentId with a parentId of the payload taking precedence.
VariantParentIdFromBody(param, body) ==
    IF body.parentId \in { UNDEFINED, NULL } THEN PkOf(param) ELSE body.parentId

\* const parentId = req.params.id, as the store keeps it in the new row.
VariantParentId(param, body) == PkOf(param)

\* ParentFound of a handler that does not look the parent up.
ParentFoundAlways(param) == TRUE

\* const parentDoc = await Doc.findByPk(parentId); if (!parentDoc) return 404
ParentFound(param) == FindByPk(docs, PkOf(param)) /= {}

\* POST /createDoc.  The handler's store calls are numbered 1 (Doc.create),
\* 2..n+1 (Code.create per entry), n+2 (findByPk); fault names the call that
\* throws, 0 for none.  There is no transaction: what was written before the
\* throw stays.
createDoc(body, fault) ==
    LET n == CodeCount(body.codes)
        id == nextDocId
        k == CodesInserted(n, fault, 2)
        parentId == IF body.parentId \in { UNDEFINED, NULL } THEN NULL ELSE body.parentId
        newDoc == NewDocRow(id, body.uiName, body.uiSubtitle, body.docs, parentId,
                            body.categoryId)
    IN  /\ fault \in 0..(n + 2)
        /\ req' = [op |-> "createDoc", body |-> body, fault |-> fault]
        /\ tomb' = tomb
        /\ IF fault = 1
           THEN /\ UNCHANGED <<docs, codes, nextDocId, nextCodeId>>
                /\ resp' = InternalError("createDoc")
           ELSE /\ docs' = docs \cup { newDoc }
                /\ nextDocId' = nextDocId + 1
                /\ codes' = codes \cup NewCodeRows(body.codes.items, k, id, nextCodeId)
                /\ nextCodeId' = nextCodeId + k
                /\ resp' = IF fault = 0
                           THEN Reply("createDoc", 201, DocJson(docs', codes', newDoc))
                           ELSE InternalError("createDoc")

\* POST /createVariant/:id.  Store calls: 1 (findByPk of the parent),
\* 2 (Doc.create), 3..n+2 (Code.create per entry), n+3 (findByPk).
createVariant(param, body, fault) ==
    LET n == CodeCount(body.codes)
        id == nextDocId
        k == CodesInserted(n, fault, 3)
        variant == NewDocRow(id, body.uiName, body.uiSubtitle, body.docs,
                             VariantParentId(param, body), body.categoryId)
    IN  /\ fault \in 0..(n + 3)
        /\ req' = [op |-> "createVariant", params |-> [id |-> param], body |-> body,
                   fault |-> fault]
        /\ tomb' = tomb
        /\ IF fault = 1
           THEN /\ UNCHANGED <<docs, codes, nextDocId, nextCodeId>>
                /\ resp' = InternalError("createVariant")
           ELSE IF ~ParentFound(param)
           THEN /\ UNCHANGED <<docs, codes, nextDocId, nextCodeId>>
                /\ resp' = NotFound("createVariant", "Parent doc not found")
           ELSE IF fault = 2
           THEN /\ UNCHANGED <<docs, codes, nextDocId, nextCodeId>>
                /\ resp' = InternalError("createVariant")
           ELSE /\ docs' = docs \cup { variant }
                /\ nextDocId' = nextDocId + 1
                /\ codes' = codes \cup NewCodeRows(body.codes.items, k, id, nextCodeId)
                /\ nextCodeId' = nextCodeId + k
                /\ resp' = IF fault = 0
                           THEN Reply("createVariant", 201, DocJson(docs', codes', variant))
                           ELSE InternalError("createVariant")

\* doc.update({ uiName, uiSubtitle, docs, categoryId }): a value that is
\* undefined leaves the column as it is.
Patch(old, new, undef) == IF new = undef THEN old ELSE new

\* UpdatedRow with parentId among the updated columns.
UpdatedRowWithParent(d, body) ==
    [ d EXCEPT !.uiName = Patch(d.uiName, body.uiName, UNDEF),
               !.uiSubtitle = Patch(d.uiSubtitle, body.uiSubtitle, UNDEF),
               !.docs = Patch(d.docs, body.docs, UNDEF),
               !.categoryId = Patch(d.categoryId, body.categoryId, UNDEFINED),
               !.parentId = Patch(d.parentId, body.parentId, UNDEFINED) ]

UpdatedRow(d, body) ==
    [ d EXCEPT !.uiName = Patch(d.uiName, body.uiName, UNDEF),
               !.uiSubtitle = Patch(d.uiSubtitle, body.uiSubtitle, UNDEF),
               !.docs = Patch(d.docs, body.docs, UNDEF),
               !.categoryId = Patch(d.categoryId, body.categoryId, UNDEFINED) ]

\* PUT /updateDoc/:id.  fault: the store call that throws (1 findByPk,
\* 2 update), 0 for none.
updateDoc(param, body, fault) ==
    LET found == FindByPk(docs, PkOf(param))
    IN  /\ req' = [op |-> "updateDoc", params |-> [id |-> param], body |-> body,
                   fault |-> fault]
        /\ UNCHANGED <<codes, nextDocId, nextCodeId, tomb>>
        /\ IF fault = 1
           THEN /\ docs' = docs
                /\ resp' = InternalError("updateDoc")
           ELSE IF found = {}
           THEN /\ docs' = docs
                /\ resp' = NotFound("updateDoc", "Doc not found")
           ELSE IF fault = 2
           THEN /\ docs' = docs
                /\ resp' = InternalError("updateDoc")
           ELSE LET doc == CHOOSE d \in found : TRUE
                    updated == UpdatedRow(doc, body)
                IN  /\ docs' = (docs \ { doc }) \cup { updated }
                    /\ resp' = Reply("updateDoc", 200, [doc |-> updated])

\* The rows a DELETE of Doc id takes with it: the foreign keys Doc.parentId
\* and Code.docId both cascade on delete.
RECURSIVE Descendants(_, _)
Descendants(ds, ids) ==
    LET more == { d.id : d \in { x \in ds : x.parentId \in ids } } \ ids
    IN  IF more = {} THEN ids ELSE Descendants(ds, ids \cup more)

\* DestroyedDocs of a handler that answers without destroying.
DestroyedDocsNone(ds, id) == {}

\* doc.destroy(): the Doc rows that go.
DestroyedDocs(ds, id) == { d \in ds : d.id \in Descendants(ds, { id }) }

\* doc.destroy(): the Code rows that go.

DestroyedCodes(ds, cs, id) == { c \in cs : c.docId \in Descendants(ds, { id }) }

\* History of the successful deletes: the ids of the Docs deleted by request,
\* of the Docs that were their variants at that moment, and of the Code rows
\* those Docs owned.
Buried(ds, cs, id) ==
    LET variants == { v.id : v \in { x \in ds : x.parentId = id } }
    IN  [ docs |-> tomb.docs \cup { id },
          variants |-> tomb.variants \cup variants,
          codes |-> tomb.codes
                    \cup { c.id : c \in { x \in cs : x.docId \in variants \cup { id } } } ]

\* DELETE /deleteDoc/:id.  fault: 1 findByPk throws, 2 destroy throws.
deleteDoc(param, fault) ==
    LET found == FindByPk(docs, PkOf(param))
    IN  /\ req' = [op |-> "deleteDoc", params |-> [id |-> param], fault |-> fault]
        /\ UNCHANGED <<nextDocId, nextCodeId>>
        /\ IF fault = 1
           THEN /\ UNCHANGED <<docs, codes, tomb>>
                /\ resp' = InternalError("deleteDoc")
           ELSE IF found = {}
           THEN /\ UNCHANGED <<docs, codes, tomb>>
                /\ resp' = NotFound("deleteDoc", "Doc not found")
           ELSE IF fault = 2
           THEN /\ UNCHANGED <<docs, codes, tomb>>
                /\ resp' = InternalError("deleteDoc")
           ELSE /\ docs' = docs \ DestroyedDocs(docs, PkOf(param))
                /\ codes' = codes \ DestroyedCodes(docs, codes, PkOf(param))
                /\ tomb' = Buried(docs, codes, PkOf(param))
                /\ resp' = Reply("deleteDoc", 200, [message |-> "Doc deleted successfully"])

\* --------------------------------------------------------------- store reads
\* where: { parentId: null }
MainDocs(ds) == { d \in ds : d.parentId = NULL }

\* The orders in which a findAll may return the rows S under ORDER BY key
\* ASC, key giving the sort key of each row: rows with equal keys come in
\* any order, and rows whose key is NULL come all first or all last, as the
\* store's dialect has it.
NullKey == 0 - 1

SortRank(k, nullsFirst) == IF k = NullKey THEN (IF nullsFirst THEN 0 - 1 ELSE 1000) ELSE k

OrderedBy(S, key) ==
    { s \in [1..Cardinality(S) -> S] :
        /\ \A i, j \in 1..Cardinality(S) : i /= j => s[i] /= s[j]
        /\ \E nullsFirst \in BOOLEAN :
             \A i, j \in 1..Cardinality(S) :
                i < j => SortRank(key[s[i]], nullsFirst) <= SortRank(key[s[j]], nullsFirst) }

ById(d) == d.id

\* order: [[{ model: Category, as: "category" }, "categoryName", "ASC"]]
ByCategoryName(d) ==
    IF \E c \in Categories : c.id = d.categoryId
    THEN NameRank((CHOOSE c \in Categories : c.id = d.categoryId).categoryName)
    ELSE NullKey

\* order: [["categoryId", "ASC"]]
ByCategoryId(d) == IF d.categoryId = NULL THEN NullKey ELSE d.categoryId

\* GET / : the main docs by ascending id, each with codes, category, variants.
GetDocsResponses(ds, cs) ==
    { Reply("getDocs", 200, [i \in 1..Len(rows) |-> FullDocJson(ds, cs, rows[i])]) :
        rows \in OrderedBy(MainDocs(ds), [d \in MainDocs(ds) |-> ById(d)]) }

\* GET /:id.  A key that is no number finds no row or makes the store throw,
\* as the store's dialect has it.
GetDocByIdResponses(ds, cs, param) ==
    LET found == FindByPk(ds, PkOf(param))
    IN  IF found /= {}
        THEN { Reply("getDocById", 200, FullDocJson(ds, cs, CHOOSE d \in found : TRUE)) }
        ELSE { NotFound("getDocById", "Doc not found") }
             \cup (IF PkOf(param) = NaN THEN { InternalError("getDocById") } ELSE {})

\* GET /getDocByUniqueSlug/:uniqueSlug
GetDocByUniqueSlugResponses(ds, cs, slug) ==
    LET found == { d \in ds : d.uniqueSlug = slug }
    IN  IF found /= {}
        THEN { Reply("getDocByUniqueSlug", 200,
                     FullDocJson(ds, cs, CHOOSE d \in found : TRUE)) }
        ELSE { NotFound("getDocByUniqueSlug", "Doc not found") }

\* ---- getUniqueSlugsGrouped
\* docObj.category || { id: "0", categoryName: "Uncategorized", ... }; the id
\* of a Category is written as its decimal string, the form in which it keys
\* the accumulator object.
CatOf(d) ==
    IF CategoryWithIdOf(d) /= {}
    THEN LET c == CHOOSE k \in CategoryWithIdOf(d) : TRUE
         IN  [id |-> DecStr(c.id), categoryName |-> c.categoryName, slug |-> c.slug]
    ELSE [id |-> "0", categoryName |-> "Uncategorized", slug |-> "uncategorized"]

Child(d) ==
    [id |-> d.id, uiName |-> d.uiName, uniqueSlug |-> d.uniqueSlug, categoryId |-> d.categoryId]

\* GroupStep that initialises the group on every pass.
GroupStepReset(acc, d) ==
    LET cat == CatOf(d)
        fresh == [key |-> cat.id, category |-> cat, children |-> <<Child(d)>>]
    IN  IF \E i \in 1..Len(acc) : acc[i].key = cat.id
        THEN [acc EXCEPT ![CHOOSE i \in 1..Len(acc) : acc[i].key = cat.id] = fresh]
        ELSE Append(acc, fresh)

\* One pass of the reducer: acc is the accumulator object as the sequence of
\* its properties in creation order.
GroupStep(acc, d) ==
    LET cat == CatOf(d)
        init == IF \E i \in 1..Len(acc) : acc[i].key = cat.id
                THEN acc
                ELSE Append(acc, [key |-> cat.id, category |-> cat, children |-> <<>>])
        at == CHOOSE i \in 1..Len(init) : init[i].key = cat.id
    IN  [init EXCEPT ![at].children = Append(@, Child(d))]

RECURSIVE Reduce(_, _)
Reduce(rows, n) == IF n = 0 THEN <<>> ELSE GroupStep(Reduce(rows, n - 1), rows[n])

\* A property key that is a canonical array index.
IsArrayIndex(k) == PkOf(k) /= NaN

KeyLess(a, b) == PkOf(a.key) < PkOf(b.key)

IndexKeyed(b) == IsArrayIndex(b.key)

NameKeyed(b) == ~IsArrayIndex(b.key)

\* Object.values(grouped): the values of the array-index keys in ascending
\* numeric order, then those of the other keys in creation order.
ObjectValues(acc) == SortSeq(SelectSeq(acc, IndexKeyed), KeyLess) \o SelectSeq(acc, NameKeyed)

Bucket(p) == [category |-> p.category, children |-> p.children]

\* findAll of getUniqueSlugsGrouped
GroupedRows(ds) == OrderedBy(MainDocs(ds), [d \in MainDocs(ds) |-> ByCategoryName(d)])

GroupedBody(rows) ==
    LET values == ObjectValues(Reduce(rows, Len(rows)))
    IN  [i \in 1..Len(values) |-> Bucket(values[i])]

GetUniqueSlugsGroupedResponses(ds) ==
    { Reply("getUniqueSlugsGrouped", 200, GroupedBody(rows)) : rows \in GroupedRows(ds) }

\* ---- getUniqueSlugsWithCode
\* where: { language: "tailwind" }, required: false
TailwindCodes(cs, docId) ==
    { [id |-> c.id, language |-> c.language, code |-> c.code] :
        c \in { x \in CodesOf(cs, docId) : x.language = "tailwind" } }

\* WithCodeCondition of a query whose include of codes is required.
WithCodeConditionRequired(ds, q) ==
    { d \in ds : /\ d.parentId = NULL
                 /\ q /= "" => d.categoryId = PkOf(q)
                 /\ \E c \in codes : c.docId = d.id /\ c.language = "tailwind" }

\* const condition = { parentId: null }; if (categoryId) condition.categoryId = categoryId
WithCodeCondition(ds, q) ==
    { d \in MainDocs(ds) : q /= "" => d.categoryId = PkOf(q) }

WithCodeRow(cs, d) ==
    [doc |-> Child(d), category |-> CategoryWithIdOf(d), codes |-> TailwindCodes(cs, d.id)]

GetUniqueSlugsWithCodeResponses(ds, cs, q) ==
    { Reply("getUniqueSlugsWithCode", 200, [i \in 1..Len(rows) |-> WithCodeRow(cs, rows[i])]) :
        rows \in OrderedBy(WithCodeCondition(ds, q),
                            [d \in WithCodeCondition(ds, q) |-> ByCategoryId(d)]) }

\* ------------------------------------------------------------- read handlers
Read(op, input, responses, fault) ==
    /\ req' = [op |-> op, input |-> input, fault |-> fault]
    /\ resp' \in (IF fault = 1 THEN { InternalError(op) } ELSE responses)
    /\ UNCHANGED <<docs, codes, nextDocId, nextCodeId, tomb>>

getDocs(fault) == Read("getDocs", "", GetDocsResponses(docs, codes), fault)

getDocById(param, fault) ==
    Read("getDocById", param, GetDocByIdResponses(docs, codes, param), fault)

getDocByUniqueSlug(slug, fault) ==
    Read("getDocByUniqueSlug", slug, GetDocByUniqueSlugResponses(docs, codes, slug), fault)

\* rows: what the handler's findAll returned.
getUniqueSlugsGrouped(rows, fault) ==
    /\ rows \in GroupedRows(docs)
    /\ req' = [op |-> "getUniqueSlugsGrouped", rows |-> rows, fault |-> fault]
    /\ resp' = IF fault = 1
               THEN InternalError("getUniqueSlugsGrouped")
               ELSE Reply("getUniqueSlugsGrouped", 200, GroupedBody(rows))
    /\ UNCHANGED <<docs, codes, nextDocId, nextCodeId, tomb>>

getUniqueSlugsWithCode(q, fault) ==
    Read("getUniqueSlugsWithCode", q, GetUniqueSlugsWithCodeResponses(docs, codes, q), fault)

\* ------------------------------------------------------------------- routes
\* module.exports of controllers/docController.js
Exports ==
    { "getDocs", "getDocById", "createDoc", "updateDoc", "deleteDoc", "createVariant",
      "getDocByUniqueSlug", "getUniqueSlugsGrouped", "getUniqueSlugsWithCode" }

\* const { ... } = require("../controllers/docController"): a name the
\* controller does not export is bound to undefined.
Imported(name) == IF name \in Exports THEN name ELSE "undefined"

Lit(t) == [param |-> FALSE, text |-> t]
Par(t) == [param |-> TRUE, text |-> t]

\* The router.METHOD(path, handler) calls of routes/docRoutes.js, in order.
Routes ==
    << [method |-> "GET", path |-> <<>>, handler |-> Imported("getDocs")],
       [method |-> "GET", path |-> <<Par("id")>>, handler |-> Imported("getDocById")],
       [method |-> "POST", path |-> <<Lit("createDoc")>>, handler |-> Imported("createDoc")],
       [method |-> "PUT", path |-> <<Lit("updateDoc"), Par("id")>>,
        handler |-> Imported("updateDoc")],
       [method |-> "DELETE", path |-> <<Lit("deleteDoc"), Par("id")>>,
        handler |-> Imported("deleteDoc")],
       [method |-> "GET", path |-> <<Lit("getDocByUniqueSlug"), Par("uniqueSlug")>>,
        handler |-> Imported("getDocByUniqueSlug")],
       [method |-> "GET", path |-> <<Lit("unique-slugs")>>,
        handler |-> Imported("getUniqueSlugs")],
       [method |-> "POST", path |-> <<Lit("createVariant"), Par("id")>>,
        handler |-> Imported("createVariant")] >>

\* router.METHOD throws when the handler is no function, so the routes module
\* loads only if every handler is one.
RouterLoads == \A i \in 1..Len(Routes) : Routes[i].handler /= "undefined"

\* A route matches a request when the methods agree and every segment of
\* its path is a parameter or the same text.
Matches(route, method, path) ==
    /\ route.method = method
    /\ Len(route.path) = Len(path)
    /\ \A i \in 1..Len(path) : route.path[i].param \/ route.path[i].text = path[i]

\* The handler of the first route, in order of registration, that matches.
Dispatch(method, path) ==
    LET hits == { i \in 1..Len(Routes) : Matches(Routes[i], method, path) }
    IN  IF hits = {} THEN "none"
        ELSE Routes[CHOOSE i \in hits : \A j \in hits : i <= j].handler

\* The responses of the GET handler h to the request path.
GetHandlerResponses(h, path) ==
    CASE h = "getDocs" -> GetDocsResponses(docs, codes)
      [] h = "getDocById" -> GetDocByIdResponses(docs, codes, path[1])
      [] h = "getDocByUniqueSlug" -> GetDocByUniqueSlugResponses(docs, codes, path[2])
      [] h = "getUniqueSlugsGrouped" -> GetUniqueSlugsGroupedResponses(docs)
      [] OTHER -> { NotFound("none", "Cannot GET") }

\* A GET request to the application that mounts routes/docRoutes.js.
HttpGet(path) ==
    /\ req' = [op |-> "GET", path |-> path]
    /\ resp' \in (IF RouterLoads
                  THEN GetHandlerResponses(Dispatch("GET", path), path)
                  ELSE { Reply("none", 0,
                               [message |-> "Route.get() requires a callback function"]) })
    /\ UNCHANGED <<docs, codes, nextDocId, nextCodeId, tomb>>

GetPaths == { <<>>, <<"1">>, <<"unique-slugs">> }

\* ------------------------------------------------------------ specification
Slugs == { "Button-1", "Button-9" }

Queries == { "", "1", "2" }

UpdateBodies ==
    { [ uiName |-> "Card", uiSubtitle |-> "Secondary", docs |-> "# v2", categoryId |-> 2,
        parentId |-> 1, uniqueSlug |-> "hacked" ],
      [ uiName |-> UNDEF, uiSubtitle |-> "Secondary", docs |-> UNDEF,
        categoryId |-> NULL, parentId |-> NULL, uniqueSlug |-> UNDEF ] }

\* The auto-increment counters are capped: a create is taken only while the
\* rows it may insert stay within the caps.
Room(body, maxDocs, maxCodeRows) ==
    /\ nextDocId <= maxDocs
    /\ nextCodeId + CodeCount(body.codes) - 1 <= maxCodeRows

\* A request whose payload the handler never comes to use (the store throws
\* before the first insert, or the row named in the path is missing) is
\* drawn with one payload only.
Absent == [isArray |-> FALSE, items |-> <<>>]

OneCode == [isArray |-> TRUE, items |-> <<[language |-> "tailwind", code |-> "tw"]>>]

Missing(param) == FindByPk(docs, PkOf(param)) = {}

\* Creation with every kind of codes payload and a fault at every store call.
CreateDocBodies == Bodies(Arrays(MaxCodes) \cup NonArrays, { UNDEFINED }, { NULL, 1 })

CreateVariantBodies ==
    Bodies(Arrays(MaxCodes) \cup NonArrays, { 2 }, { 1 })
    \cup Bodies({ Absent, OneCode }, { NULL }, { 1 })

CreateParams == Params(CreateMaxDocs + 1)

NextCreate ==
    \/ \E body \in CreateDocBodies, fault \in 0..(MaxCodes + 2) :
          /\ Room(body, CreateMaxDocs, CreateMaxCodeRows)
          /\ fault = 1 => body.codes = Absent
          /\ createDoc(body, fault)
    \/ \E param \in CreateParams, body \in CreateVariantBodies, fault \in 0..(MaxCodes + 3) :
          /\ Room(body, CreateMaxDocs, CreateMaxCodeRows)
          /\ fault \in 1..2 => body.codes = Absent
          /\ Missing(param) => body.codes \in { Absent, OneCode }
          /\ createVariant(param, body, fault)

SpecCreate == Init /\ [][NextCreate]_vars

\* Deletes and the reads over docs with codes and variants.
DeleteDocBodies == Bodies(Arrays(1), { UNDEFINED }, { NULL, 1 })

DeleteVariantBodies == Bodies(Arrays(1), { UNDEFINED }, { 1 })

DeleteParams == Params(DeleteMaxDocs + 1)

NextDelete ==
    \/ \E body \in DeleteDocBodies :
          Room(body, DeleteMaxDocs, DeleteMaxCodeRows) /\ createDoc(body, 0)
    \/ \E param \in DeleteParams, body \in DeleteVariantBodies :
          /\ Room(body, DeleteMaxDocs, DeleteMaxCodeRows)
          /\ ~Missing(param)
          /\ createVariant(param, body, 0)
    \/ \E param \in DeleteParams, fault \in 0..2 : deleteDoc(param, fault)
    \/ getDocs(0)
    \/ \E param \in DeleteParams : getDocById(param, 0)
    \/ \E q \in Queries : getUniqueSlugsWithCode(q, 0)

SpecDelete == Init /\ [][NextDelete]_vars

\* Updates of docs and variants that own codes.
UpdateDocBodies == Bodies(Arrays(1), { UNDEFINED }, { NULL, 1 })

UpdateVariantBodies == Bodies({ Absent }, { UNDEFINED }, { 1 })

UpdateParams == Params(UpdateMaxDocs + 1)

NextUpdate ==
    \/ \E body \in UpdateDocBodies :
          Room(body, UpdateMaxDocs, UpdateMaxCodeRows) /\ createDoc(body, 0)
    \/ \E param \in UpdateParams, body \in UpdateVariantBodies :
          /\ Room(body, UpdateMaxDocs, UpdateMaxCodeRows)
          /\ ~Missing(param)
          /\ createVariant(param, body, 0)
    \/ \E param \in UpdateParams, body \in UpdateBodies, fault \in 0..2 :
          /\ (fault /= 0 \/ Missing(param)) => body.uniqueSlug = "hacked"
          /\ updateDoc(param, body, fault)
    \/ \E param \in UpdateParams : getDocById(param, 0)

SpecUpdate == Init /\ [][NextUpdate]_vars

\* The slug listings and the routes over docs without codes.
SlugsBodies == Bodies({ Absent }, { UNDEFINED }, { NULL, 1, 2 })

SlugsParams == Params(SlugsMaxDocs)

NextSlugs ==
    \/ \E body \in SlugsBodies : Room(body, SlugsMaxDocs, 0) /\ createDoc(body, 0)
    \/ \E param \in SlugsParams, body \in SlugsBodies :
          Room(body, SlugsMaxDocs, 0) /\ createVariant(param, body, 0)
    \/ \E param \in SlugsParams : deleteDoc(param, 0)
    \/ \E rows \in GroupedRows(docs), fault \in 0..1 : getUniqueSlugsGrouped(rows, fault)
    \/ \E slug \in Slugs, fault \in 0..1 : getDocByUniqueSlug(slug, fault)
    \/ \E path \in GetPaths : HttpGet(path)

SpecSlugs == Init /\ [][NextSlugs]_vars

\* ===================================================================== claims
\* The entries a payload's codes supplies: those of the array, none when
\* codes is absent or no array.
Supplied(c) == IF c.isArray THEN c.items ELSE <<>>

Occurrences(items, e) == Cardinality({ i \in 1..Len(items) : items[i] = e })

RowsLike(rows, e) ==
    Cardinality({ c \in rows : c.language = e.language /\ c.code = e.code })

Exists(pk) == \E d \in docs : d.id = pk

\* C1: after a createDoc that answered 201, getDocById on the new id answers
\* 200 with a Doc whose uiName, uiSubtitle, docs and categoryId are those of
\* the payload and whose codes are, entry for entry, the supplied ones (none
\* when codes is absent or no array).
C1_CreateThenGet ==
    (req.op = "createDoc" /\ resp.status = 201) =>
        \A r \in GetDocByIdResponses(docs, codes, DecStr(resp.body.doc.id)) :
            /\ r.status = 200
            /\ r.body.doc.uiName = req.body.uiName
            /\ r.body.doc.uiSubtitle = req.body.uiSubtitle
            /\ r.body.doc.docs = req.body.docs
            /\ r.body.doc.categoryId = req.body.categoryId
            /\ Cardinality(r.body.codes) = Len(Supplied(req.body.codes))
            /\ \A e \in CodeEntries :
                 RowsLike(r.body.codes, e) = Occurrences(Supplied(req.body.codes), e)

C1_Witness ==
    /\ req.op = "createDoc"
    /\ resp.status = 201
    /\ req.body.categoryId = 1
    /\ req.body.codes.isArray
    /\ Len(req.body.codes.items) = 2
    /\ req.body.codes.items[1] /= req.body.codes.items[2]

\* C2: a createVariant whose path names an existing Doc gives every row it
\* inserts the parentId of the path, whatever parentId the payload carries,
\* and, when no store call throws, answers 201 with that new row.
C2_VariantParentFromPath ==
    [][ (req'.op = "createVariant" /\ Exists(PkOf(req'.params.id))) =>
          /\ \A d \in docs' \ docs : d.parentId = PkOf(req'.params.id)
          /\ req'.fault = 0 =>
               /\ resp'.status = 201
               /\ resp'.body.doc \in docs' \ docs
               /\ resp'.body.doc.parentId = PkOf(req'.params.id) ]_vars

C2_Witness ==
    /\ req.op = "createVariant"
    /\ resp.status = 201
    /\ req.params.id = "1"
    /\ req.body.parentId = 2
    /\ resp.body.doc.parentId = 1

\* C3: a createVariant whose path names no existing Doc answers 404 "Parent
\* doc not found" and leaves the Doc rows and the Code rows as they were.
C3_MissingParent ==
    [][ (req'.op = "createVariant" /\ ~Exists(PkOf(req'.params.id)) /\ req'.fault /= 1) =>
          /\ resp'.status = 404
          /\ resp'.body.message = "Parent doc not found"
          /\ docs' = docs
          /\ codes' = codes ]_vars

C3_Witness ==
    /\ req.op = "createVariant"
    /\ resp.status = 404
    /\ req.body.codes.isArray
    /\ Len(req.body.codes.items) > 0
    /\ docs /= {}
    /\ codes /= {}

\* The call of createDoc (first = 2) or createVariant (first = 3) that
\* inserts entry i of n is call first + i - 1.
InsertFaults(n, first) == first..(first + n - 1)

FirstInsert(op) == IF op = "createDoc" THEN 2 ELSE 3

\* C10: when the store throws at the Code.create of an entry, after the Doc
\* row went in, the request ends in the internal error, the Doc row stays
\* with exactly the Code rows of the entries before that one, in input order,
\* and getDocById on its id answers with that partial Doc.
C10_PartialWrite ==
    [][ ( /\ req'.op \in { "createDoc", "createVariant" }
          /\ req'.op = "createVariant" => Exists(PkOf(req'.params.id))
          /\ req'.fault \in InsertFaults(Len(Supplied(req'.body.codes)), FirstInsert(req'.op)) ) =>
          LET items == Supplied(req'.body.codes)
              k == req'.fault - FirstInsert(req'.op)
              added == codes' \ codes
          IN  /\ resp'.status = 500
              /\ k < Len(items)
              /\ \E d \in docs' \ docs :
                   /\ d.id = nextDocId
                   /\ docs' = docs \cup { d }
                   /\ \A c \in added : c.docId = d.id
                   /\ \A r \in GetDocByIdResponses(docs', codes', DecStr(d.id)) :
                        r.status = 200 /\ r.body.codes = added
              /\ Cardinality(added) = k
              /\ \A i \in 1..k :
                   \E c \in added :
                      /\ c.id = nextCodeId + i - 1
                      /\ c.language = items[i].language
                      /\ c.code = items[i].code ]_vars

C10_Witness ==
    /\ req.op = "createDoc"
    /\ resp.status = 500
    /\ req.fault = 3
    /\ Len(Supplied(req.body.codes)) = 2
    /\ \E d \in docs : d.id = nextDocId - 1 /\ Cardinality({ c \in codes : c.docId = d.id }) = 1

\* ---- the ids a response shows
FullDocIds(j) == { j.doc.id } \cup { v.doc.id : v \in j.uiVariants }

FullCodeIds(j) ==
    { c.id : c \in j.codes } \cup UNION { { c.id : c \in v.codes } : v \in j.uiVariants }

ListedDocIds(r) == UNION { FullDocIds(r.body[i]) : i \in 1..Len(r.body) }

ListedCodeIds(r) == UNION { FullCodeIds(r.body[i]) : i \in 1..Len(r.body) }

ById200 ==
    { r \in UNION { GetDocByIdResponses(docs, codes, p) : p \in DeleteParams } : r.status = 200 }

WithCode200 == UNION { GetUniqueSlugsWithCodeResponses(docs, codes, q) : q \in Queries }

ShownDocIds ==
    UNION { FullDocIds(r.body) : r \in ById200 }
    \cup UNION { ListedDocIds(r) : r \in GetDocsResponses(docs, codes) }
    \cup UNION { { r.body[i].doc.id : i \in 1..Len(r.body) } : r \in WithCode200 }

ShownCodeIds ==
    UNION { FullCodeIds(r.body) : r \in ById200 }
    \cup UNION { ListedCodeIds(r) : r \in GetDocsResponses(docs, codes) }
    \cup UNION { UNION { { c.id : c \in r.body[i].codes } : i \in 1..Len(r.body) } :
                 r \in WithCode200 }

\* C4: once deleteDoc has succeeded on a Doc, getDocById on its id answers
\* 404 from then on, and neither that Doc, nor a Doc that was its variant,
\* nor a Code row that either owned is in any answer of getDocById, getDocs
\* or getUniqueSlugsWithCode.
C4_DeletedStaysGone ==
    /\ \A id \in tomb.docs :
          \A r \in GetDocByIdResponses(docs, codes, DecStr(id)) : r.status = 404
    /\ ShownDocIds \cap (tomb.docs \cup tomb.variants) = {}
    /\ ShownCodeIds \cap tomb.codes = {}

C4_Witness ==
    /\ req.op = "deleteDoc"
    /\ resp.status = 200
    /\ tomb.variants /= {}
    /\ Cardinality(tomb.codes) = 2

\* C5: an updateDoc leaves the Code rows and every Doc but the one of the
\* path as they were, adds and removes no Doc, and leaves parentId and
\* uniqueSlug of every Doc as they were, whatever the payload carries.
C5_UpdateFrame ==
    [][ req'.op = "updateDoc" =>
          /\ codes' = codes
          /\ { d.id : d \in docs' } = { d.id : d \in docs }
          /\ \A d \in docs : d.id /= PkOf(req'.params.id) => d \in docs'
          /\ \A d \in docs, e \in docs' :
                d.id = e.id => e.parentId = d.parentId /\ e.uniqueSlug = d.uniqueSlug ]_vars

C5_Witness ==
    /\ req.op = "updateDoc"
    /\ resp.status = 200
    /\ req.body.parentId = 1
    /\ req.body.uniqueSlug = "hacked"
    /\ resp.body.doc.uiName = "Card"
    /\ resp.body.doc.categoryId = 2
    /\ resp.body.doc.parentId = NULL
    /\ resp.body.doc.uniqueSlug = "Button-1"
    /\ Cardinality(docs) = 2
    /\ codes /= {}

\* C9: getUniqueSlugsWithCode answers with exactly the Docs that have no
\* parent (and the categoryId of the query, when it gives one), each once and
\* each with exactly its own Code rows of language "tailwind", be they none.
C9_WithCodeOuterJoin ==
    (req.op = "getUniqueSlugsWithCode" /\ resp.status = 200) =>
        LET expected ==
                { d \in docs : /\ d.parentId = NULL
                               /\ req.input /= "" => d.categoryId = PkOf(req.input) }
        IN  /\ Len(resp.body) = Cardinality(expected)
            /\ \A d \in expected :
                  \E i \in 1..Len(resp.body) :
                     /\ resp.body[i].doc.id = d.id
                     /\ resp.body[i].codes =
                          { [id |-> c.id, language |-> c.language, code |-> c.code] :
                              c \in { x \in codes : x.docId = d.id /\ x.language = "tailwind" } }

C9_Witness ==
    /\ req.op = "getUniqueSlugsWithCode"
    /\ resp.status = 200
    /\ Len(resp.body) = 2
    /\ \E i, j \in 1..2 :
          /\ resp.body[i].codes = {}
          /\ \E c \in codes : c.docId = resp.body[i].doc.id /\ c.language = "jsx"
          /\ resp.body[j].codes /= {}

\* ---- the grouped slugs
HasCategory(d) == \E c \in Categories : c.id = d.categoryId

\* The group of a Doc: its Category's id, "0" when it has no Category.
GroupOf(d) == IF HasCategory(d) THEN DecStr(d.categoryId) ELSE "0"

\* The groups of rows[1..n] in the order of their first occurrence.
RECURSIVE FirstSeen(_, _)
FirstSeen(rows, n) ==
    IF n = 0 THEN <<>>
    ELSE LET before == FirstSeen(rows, n - 1)
         IN  IF \E i \in 1..Len(before) : before[i] = GroupOf(rows[n])
             THEN before
             ELSE Append(before, GroupOf(rows[n]))

\* C6: GET /unique-slugs is answered 200 by getUniqueSlugsGrouped.
C6_UniqueSlugsRoute ==
    (req.op = "GET" /\ req.path = <<"unique-slugs">>) =>
        resp.handler = "getUniqueSlugsGrouped" /\ resp.status = 200

\* C7: the buckets of getUniqueSlugsGrouped come in the order in which their
\* categories first occur in the rows that the query returned sorted by
\* category name.
C7_BucketOrder ==
    (req.op = "getUniqueSlugsGrouped" /\ resp.status = 200) =>
        /\ Len(resp.body) = Len(FirstSeen(req.rows, Len(req.rows)))
        /\ \A i \in 1..Len(resp.body) :
              resp.body[i].category.id = FirstSeen(req.rows, Len(req.rows))[i]

\* C8: the buckets of getUniqueSlugsGrouped partition the Docs without a
\* parent: each is a child of exactly one bucket and no other Doc is a child,
\* there is one bucket per category among them, each child lies in the bucket
\* of its Category, and those without a Category lie in the bucket with id
\* "0" named "Uncategorized".
C8_GroupedPartition ==
    (req.op = "getUniqueSlugsGrouped" /\ resp.status = 200) =>
        LET B == resp.body
            mains == { d \in docs : d.parentId = NULL }
            slots == UNION { { <<i, j>> : j \in 1..Len(B[i].children) } : i \in 1..Len(B) }
        IN  /\ \A d \in mains :
                  Cardinality({ s \in slots : B[s[1]].children[s[2]].id = d.id }) = 1
            /\ Cardinality(slots) = Cardinality(mains)
            /\ \A s \in slots :
                  \E d \in mains :
                     /\ B[s[1]].children[s[2]] =
                          [id |-> d.id, uiName |-> d.uiName, uniqueSlug |-> d.uniqueSlug,
                           categoryId |-> d.categoryId]
                     /\ B[s[1]].category.id = GroupOf(d)
                     /\ HasCategory(d) =>
                          \E c \in Categories :
                             c.id = d.categoryId
                             /\ B[s[1]].category.categoryName = c.categoryName
                     /\ ~HasCategory(d) => B[s[1]].category.categoryName = "Uncategorized"
            /\ \A i, j \in 1..Len(B) : i /= j => B[i].category.id /= B[j].category.id
            /\ { B[i].category.id : i \in 1..Len(B) } = { GroupOf(d) : d \in mains }

C8_Witness ==
    /\ req.op = "getUniqueSlugsGrouped"
    /\ resp.status = 200
    /\ Len(resp.body) = 3
    /\ \E i \in 1..3 : resp.body[i].category.categoryName = "Uncategorized"

====
